---- MODULE Spec2Model ----
(***************************************************************************)
(* App-or-store deep-link detection: the tryOpenApp race of the helper     *)
(* script and the two MobileAppDetector classes of src/main.js, run on a   *)
(* single-threaded event loop with a millisecond clock, one-shot timers    *)
(* and the page's visibility events.                                       *)
(***************************************************************************)
EXTENDS Integers, Sequences, FiniteSets, TLC

\* ---------------------------------------------------------------- bounds
\* Granularity of the clock: time advances in steps of Tick milliseconds.
Tick == 100
\* A due timer may be run late, but not by MaxLate milliseconds or more.
MaxLate == 100
\* The clock is not followed past MaxTime (every timer is due before it).
MaxTime == 6000
\* The store button is clicked at most MaxClicks times.
MaxClicks == 2
\* Foreground-loss events are followed until openApp has called resolve
\* MaxResolveCalls times.
MaxResolveCalls == 3
\* Overlapping detectApp calls on one detector: the last call is made no later
\* than MaxStart.
MaxStart == 1000

\* The clock of a detectMultipleApps run does not advance beyond MaxBatchTime:
\* two timeouts of the logging class, the delay between them and their lateness.
MaxBatchTime == 12000

\* ------------------------------------------------------ program constants
DefaultTimeout == 1500
OpenOrStoreTimeout == 1600
IframeLinger == 500
OpenAppTimeout == 2500
OpenAppIframeLinger == 1000
RedirectDelay == 2000

TimeoutDuration1 == 2500
IosSettle1 == 100
IosPoll1 == 100
IosCleanup1 == 100
IntentDelay1 == 1000
SchemeDelay1 == 500
SchemeCheckDelay1 == 1000
GenericSettle1 == 500
GenericPoll1 == 100

TimeoutDuration2 == 5000
IosSettle2 == 300
IosPoll2 == 200
IosCleanup2 == 500
IntentDelay2 == 1500
SchemeDelay2 == 1000
SchemeCheckDelay2 == 1500
GenericSettle2 == 800
GenericPoll2 == 200

\* The store listings openOrStore names, and the CONFIG of the landing page.
AppStoreUrl == "https://apps.apple.com/app/whatsapp-messenger/id310633997"
PlayStoreUrl == "https://play.google.com/store/apps/details?id=com.whatsapp"
CONFIG ==
  [ deepLink |-> "az.azerconnect.nar://",
    androidStore |-> "https://play.google.com/store/apps/details?id=az.azerconnect.nar",
    iosStore |-> "https://apps.apple.com/us/app/nar/id6444889671",
    apiUrl |-> "https://app.nar.az/api/v1/loyalty-service/clipboards" ]

timeoutDuration(v) == IF v = 1 THEN TimeoutDuration1 ELSE TimeoutDuration2
IosSettle(v) == IF v = 1 THEN IosSettle1 ELSE IosSettle2
IosPoll(v) == IF v = 1 THEN IosPoll1 ELSE IosPoll2
IosCleanup(v) == IF v = 1 THEN IosCleanup1 ELSE IosCleanup2
IntentDelay(v) == IF v = 1 THEN IntentDelay1 ELSE IntentDelay2
SchemeDelay(v) == IF v = 1 THEN SchemeDelay1 ELSE SchemeDelay2
SchemeCheckDelay(v) == IF v = 1 THEN SchemeCheckDelay1 ELSE SchemeCheckDelay2
GenericSettle(v) == IF v = 1 THEN GenericSettle1 ELSE GenericSettle2
GenericPoll(v) == IF v = 1 THEN GenericPoll1 ELSE GenericPoll2

\* ------------------------------------------------------------------ state
VARIABLES
  now,              \* Date.now(), in milliseconds
  hidden,           \* document.hidden (visibilityState = "hidden")
  domFails,         \* DOM injection (createElement / appendChild / click) throws on this page
  timers,           \* pending setTimeout timers: records [id, due, seq]
  timerSeq,         \* number of timers created so far
  body,             \* transient elements attached to document.body
  attempts,         \* launch attempts issued so far: [kind, url]
  listeners,        \* event types the session has a listener registered for
  fn,               \* the entry point that was called: "none", "tryOpenApp", "detectApp",
                    \* "main", "openAppOrStore"
  opts,             \* tryOpenApp arguments [scheme, timeout, openMethod]
  version,          \* which MobileAppDetector class: 1 (2500 ms) or 2 (logging, 5000 ms)
  path,             \* branch taken by detectApp: "ios", "android", "generic", "desktop"
  config,           \* detectApp config [iosScheme, androidScheme, androidPackage]
  startTime,        \* const startTime = Date.now() of the session
  done,             \* tryOpenApp: let done
  resolved,         \* detectors: let resolved
  promise,          \* the session promise: "none", "pending", "true", "false", "rejected"
  isInstalled,      \* result.isInstalled returned by detectApp: "none" until it returns
  detectionMethod,  \* result.detectionMethod
  resolveCalls,     \* number of calls of the promise's resolve function
  cleanupCalls,     \* number of runs of tryOpenApp's cleanup
  uncaught,         \* an exception escaped a timer callback
  verdict,          \* value passed by the first resolve call: "none", "true", "false"
  resolvedBy,       \* handler that made the first resolve call
  resolvedAt,       \* clock at the first resolve call
  hiddenAtResolve,  \* document.hidden at the first resolve call
  signalled,        \* an event was dispatched to a registered listener of the session
  timeoutRan,       \* the timeout callback has run
  hiddenInWindow,   \* the page became hidden while the session was unresolved and
                    \* less than its timeout had elapsed
  device,           \* the visitor's platform [isIOS, isAndroid, isMobile]
  everHidden,       \* the page was hidden at some moment of the session
  domThrew,         \* a DOM operation of a launch attempt has thrown
  caller,           \* the function awaiting tryOpenApp: "none" or "openOrStore"
  opened,           \* openApp: let opened
  ui,               \* what the page shows: "", "loading", "store", "desktop",
                    \* "attempting", "mobileOnly"
  clicks,           \* number of clicks on the store button
  isSafari,         \* openAppOrStore: the user agent names Safari and not Chrome
  hiddenPastSettle, \* detectIOSApp: the page was hidden at a moment at which the
                    \* settle delay had elapsed
  sessions,         \* overlapping detectApp calls: per call its appName, branch,
                    \* closure state (rec) and completion order
  pageTimers,       \* their pending timers [id, due, seq, sid], all in one host queue
  pageBody,         \* the calls whose iframe is attached to document.body
  detectionResults, \* this.detectionResults: appName -> result
  completions,      \* number of detectApp calls that have returned
  lastClear,        \* value of completions at the last clearResults()
  batch             \* detectMultipleApps: position in appConfigs, the results
                    \* array, the time of the last push, whether it returned

vars == <<now, hidden, domFails, timers, timerSeq, body, attempts, listeners, fn, opts,
          version, path, config, startTime, done, resolved, promise,
          isInstalled, detectionMethod, resolveCalls, cleanupCalls, uncaught,
          verdict, resolvedBy, resolvedAt, hiddenAtResolve, signalled,
          timeoutRan, hiddenInWindow, device, everHidden, domThrew, caller,
          opened, ui, clicks, isSafari, hiddenPastSettle, sessions, pageTimers,
          pageBody, detectionResults, completions, lastClear, batch>>

multiVars == <<sessions, pageTimers, pageBody, detectionResults, completions,
               lastClear, batch>>

callVars == <<opts, version, path, config, startTime, detectionMethod, device,
              caller, isSafari>>

B2S(value) == IF value THEN "true" ELSE "false"

Schemes == {"", "whatsapp://"}
DeepLinks == {"whatsapp://", "tg://"}
Timeouts == {DefaultTimeout, OpenOrStoreTimeout}
OpenMethods == {"href", "iframe"}
EventTypes == {"visibilitychange", "pagehide", "blur"}

Devices ==
  { [isIOS |-> TRUE,  isAndroid |-> FALSE, isMobile |-> TRUE],
    [isIOS |-> FALSE, isAndroid |-> TRUE,  isMobile |-> TRUE],
    [isIOS |-> TRUE,  isAndroid |-> TRUE,  isMobile |-> TRUE],
    [isIOS |-> FALSE, isAndroid |-> FALSE, isMobile |-> TRUE],
    [isIOS |-> FALSE, isAndroid |-> FALSE, isMobile |-> FALSE] }

Configs ==
  [ iosScheme : {"", "whatsapp://"},
    androidScheme : {"", "whatsapp://send"},
    androidPackage : {"", "com.whatsapp"} ]

NoOpts == [scheme |-> "", timeout |-> 0, openMethod |-> "href"]
NoConfig == [iosScheme |-> "", androidScheme |-> "", androidPackage |-> ""]
\* Two overlapping calls, numbered in the order they are made.
SessionIds == {1, 2}
AppNames == {"WhatsApp", "Telegram"}
\* A demo config: every scheme and the package are given.
FullConfig(appName) ==
  [ appName |-> appName, iosScheme |-> "whatsapp://",
    androidScheme |-> "whatsapp://send", androidPackage |-> "com.whatsapp" ]
NoResult == [isInstalled |-> "none", detectionMethod |-> "", call |-> 0]
NoResults == [a \in AppNames |-> NoResult]
BlankRec ==
  [ fn |-> "none", timers |-> {}, timerSeq |-> 0, hidden |-> FALSE, body |-> {},
    attempts |-> <<>>, listeners |-> {}, done |-> FALSE, resolved |-> FALSE,
    promise |-> "none", isInstalled |-> "none", resolveCalls |-> 0,
    cleanupCalls |-> 0, uncaught |-> FALSE, verdict |-> "none",
    domThrew |-> FALSE, opened |-> FALSE, ui |-> "", startTime |-> 0 ]
IdleSession == [appName |-> "", path |-> "none", completedSeq |-> 0, rec |-> BlankRec]
\* detectMultipleApps not called.
NoBatch == [pos |-> 0, results |-> <<>>, lastPush |-> 0, returned |-> FALSE]
NoDevice == [isIOS |-> FALSE, isAndroid |-> FALSE, isMobile |-> FALSE]

\* ------------------------------------------- the session as a record
\* The mutable part of the page and of the session, as seen by a callback that
\* runs with the pending timers ts and document.hidden = h.
Cur(ts, h) ==
  [ fn |-> fn, timers |-> ts, timerSeq |-> timerSeq, hidden |-> h, body |-> body, attempts |-> attempts,
    listeners |-> listeners, done |-> done, resolved |-> resolved,
    promise |-> promise, isInstalled |-> isInstalled,
    resolveCalls |-> resolveCalls, cleanupCalls |-> cleanupCalls,
    uncaught |-> uncaught, verdict |-> verdict, domThrew |-> domThrew,
    opened |-> opened, ui |-> ui, startTime |-> startTime ]

setTimeout(s, id, delay) ==
  [s EXCEPT !.timers = @ \cup {[id |-> id, due |-> now + delay, seq |-> s.timerSeq]},
            !.timerSeq = @ + 1]

clearTimeout(s, id) ==
  [s EXCEPT !.timers = {x \in @ : x.id # id}]

appendChild(s) == [s EXCEPT !.body = @ \cup {"iframe"}]
removeChild(s) == [s EXCEPT !.body = @ \ {"iframe"}]
attempt(s, kind, url) ==
  [s EXCEPT !.attempts = Append(@, [kind |-> kind, url |-> url])]

\* openOrStore after its await: the fallback navigation.
openOrStoreResume(s, installed) ==
  IF ~installed THEN attempt(s, "location", <<AppStoreUrl>>) ELSE s

\* main after its await: showStore, the button handler and the redirect timer.
mainResume(s, appOpened) ==
  IF ~appOpened
    THEN setTimeout([s EXCEPT !.ui = "store"], "redirect", RedirectDelay)
    ELSE s

\* resolve(value): only the first settlement of a promise counts; the function
\* awaiting the promise resumes with the value (detectApp returns its result).
resolve(s, value) ==
  LET s1 == [s EXCEPT !.resolveCalls = @ + 1,
                      !.verdict = IF @ = "none" THEN B2S(value) ELSE @,
                      !.promise = IF @ = "pending" THEN B2S(value) ELSE @,
                      !.isInstalled = IF s.promise = "pending" /\ s.fn = "detectApp"
                                        THEN B2S(value) ELSE @]
  IN  IF s.promise # "pending" THEN s1
      ELSE IF s.fn = "main" THEN mainResume(s1, value)
      ELSE IF caller = "openOrStore" THEN openOrStoreResume(s1, value)
      ELSE s1

\* An exception in the promise executor rejects the promise; detectApp's catch
\* block turns the rejection into isInstalled = false.
reject(s) ==
  [s EXCEPT !.promise = IF @ = "pending" THEN "rejected" ELSE @,
            !.isInstalled = IF s.promise = "pending" /\ s.fn = "detectApp"
                              THEN "false" ELSE @]

\* A DOM operation of a launch attempt throws.
thrown(s) == [s EXCEPT !.domThrew = TRUE]


\* ------------------------------------------------------------ tryOpenApp
\* cleanup that forgets clearTimeout(t).
cleanup_noClear(s) ==
  [s EXCEPT !.listeners = @ \ EventTypes, !.cleanupCalls = @ + 1]

\* cleanup that leaves the blur listener registered.
cleanup_keepBlur(s) ==
  clearTimeout([s EXCEPT !.listeners = @ \ {"visibilitychange", "pagehide"},
                         !.cleanupCalls = @ + 1], "t")

\* cleanup that also cancels the iframe removal timer.
cleanup_clearsRemoval(s) ==
  clearTimeout(clearTimeout([s EXCEPT !.listeners = @ \ EventTypes,
                                      !.cleanupCalls = @ + 1], "t"),
               "iframeRemove")

cleanup(s) ==
  clearTimeout([s EXCEPT !.listeners = @ \ EventTypes,
                         !.cleanupCalls = @ + 1], "t")

\* finish that forgets to call cleanup.
finish_noCleanup(s, value) ==
  IF s.done THEN s
  ELSE resolve([s EXCEPT !.done = TRUE], value)

finish(s, value) ==
  IF s.done THEN s
  ELSE resolve(cleanup([s EXCEPT !.done = TRUE]), value)

onHide(s) == finish(s, TRUE)

\* onBlur without the visibilityState test.
onBlur_noCheck(s) == finish(s, TRUE)

onBlur(s) == IF s.hidden THEN finish(s, TRUE) ELSE s

\* tryOpenApp that attempts the launch before it registers the listeners and
\* starts timer t: a launch that throws leaves the session unarmed.
tryOpenApp_launchFirst(s, scheme, timeout, openMethod) ==
  LET s0 == [s EXCEPT !.fn = "tryOpenApp", !.done = FALSE, !.promise = "pending"]
      s1 == [s0 EXCEPT !.listeners = @ \cup EventTypes]
      s2 == setTimeout(s1, "t", timeout)
  IN  IF openMethod = "iframe"
        THEN IF domFails
               THEN reject(thrown(s0))
               ELSE setTimeout(attempt(appendChild(s2), "iframe", <<scheme>>),
                               "iframeRemove", timeout + IframeLinger)
        ELSE attempt(s2, "location", <<scheme>>)

\* The promise executor of tryOpenApp(scheme, {timeout, openMethod}).
tryOpenApp(s, scheme, timeout, openMethod) ==
  LET s1 == [s EXCEPT !.fn = "tryOpenApp", !.done = FALSE,
                      !.promise = "pending",
                      !.listeners = @ \cup EventTypes]
      s2 == setTimeout(s1, "t", timeout)
  IN  IF openMethod = "iframe"
        THEN IF domFails
               THEN reject(thrown(s2))
               ELSE setTimeout(attempt(appendChild(s2), "iframe", <<scheme>>),
                               "iframeRemove", timeout + IframeLinger)
        ELSE attempt(s2, "location", <<scheme>>)

\* A timeout callback that reports true.
tCallback_true(s) == finish(s, TRUE)

\* () => finish(false)
tCallback(s) == finish(s, FALSE)

\* A removal callback that leaves the iframe attached.
iframeRemove_noop(s) == s

\* () => iframe.remove()
iframeRemove(s) == removeChild(s)

\* ------------------------------------------------------ MobileAppDetector
\* detectIOSApp whose first check is scheduled with no delay.
detectIOSApp_noSettle(s, v, scheme) ==
  LET s1 == setTimeout([s EXCEPT !.resolved = FALSE, !.promise = "pending"],
                       "timeout", timeoutDuration(v))
  IN  IF domFails
        THEN reject(thrown(s1))
        ELSE setTimeout(attempt(appendChild(s1), "iframe", <<scheme>>),
                        "settle", 0)

\* detectIOSApp(scheme): the promise executor.
detectIOSApp(s, v, scheme) ==
  LET s1 == setTimeout([s EXCEPT !.resolved = FALSE, !.promise = "pending"],
                       "timeout", timeoutDuration(v))
  IN  IF domFails
        THEN reject(thrown(s1))
        ELSE setTimeout(attempt(appendChild(s1), "iframe", <<scheme>>),
                        "settle", IosSettle(v))

\* A timeout callback that reports the app as installed.
timeoutCallback_true(s, v, p) ==
  IF v = 1 /\ p \in {"ios", "generic"}
    THEN resolve(s, TRUE)
    ELSE IF ~s.resolved
           THEN resolve([s EXCEPT !.resolved = TRUE], TRUE)
           ELSE s

\* A timeout callback that resolves false without testing or setting the flag.
timeoutCallback_noFlag(s, v, p) == resolve(s, FALSE)

\* A timeout callback that sets the flag and forgets resolve(false).
timeoutCallback_noResolve(s, v, p) ==
  IF v = 1 /\ p \in {"ios", "generic"}
    THEN resolve(s, FALSE)
    ELSE IF ~s.resolved
           THEN [s EXCEPT !.resolved = TRUE]
           ELSE s

\* The timeout callback. In the first class the iOS and generic paths call
\* resolve(false) unguarded; every other path checks and sets resolved.
timeoutCallback(s, v, p) ==
  IF v = 1 /\ p \in {"ios", "generic"}
    THEN resolve(s, FALSE)
    ELSE IF ~s.resolved
           THEN resolve([s EXCEPT !.resolved = TRUE], FALSE)
           ELSE s

\* checkInstallation of detectIOSApp. removeChild of a node that is not a
\* child throws; the exception ends the callback at that statement.
checkInstallation(s, v) ==
  LET timeElapsed == now - s.startTime IN
  IF v = 1
    THEN IF timeElapsed < timeoutDuration(v)
           THEN IF s.hidden
                  THEN LET c == clearTimeout(s, "timeout") IN
                       IF "iframe" \in c.body
                         THEN resolve(removeChild(c), TRUE)
                         ELSE [c EXCEPT !.uncaught = TRUE]
                  ELSE setTimeout(s, "checkInstallation", IosPoll(v))
           ELSE s
    ELSE IF timeElapsed < timeoutDuration(v) /\ ~s.resolved
           THEN IF s.hidden
                  THEN LET c == clearTimeout([s EXCEPT !.resolved = TRUE], "timeout")
                           d == IF "iframe" \in c.body THEN removeChild(c) ELSE c
                       IN  resolve(d, TRUE)
                  ELSE setTimeout(s, "checkInstallation", IosPoll(v))
           ELSE s

\* The cleanup callback of detectIOSApp.
iosCleanup(s) == IF "iframe" \in s.body THEN removeChild(s) ELSE s

\* The first delayed callback of detectIOSApp: checkInstallation(), then the
\* cleanup timer (not reached when checkInstallation threw).
iosSettle(s, v) ==
  LET c == checkInstallation(s, v) IN
  IF c.uncaught /\ ~s.uncaught THEN c
  ELSE setTimeout(c, "cleanup", IosCleanup(v))

IntentUrl(packageName) == <<"intent://launch#Intent;package=", packageName, ";end">>

\* detectAndroidApp(scheme, packageName): the promise executor.
\* detectAndroidApp that navigates to the intent URL whether or not a package
\* name was given.
detectAndroidApp_alwaysIntent(s, v, scheme, packageName) ==
  LET s1 == setTimeout([s EXCEPT !.resolved = FALSE, !.promise = "pending"],
                       "timeout", timeoutDuration(v))
      s2 == setTimeout(attempt(s1, "location", IntentUrl(packageName)),
                       "intentCheck", IntentDelay(v))
  IN  IF scheme # "" /\ ~s2.resolved
        THEN setTimeout(s2, "schemeStart", SchemeDelay(v))
        ELSE s2

detectAndroidApp(s, v, scheme, packageName) ==
  LET s1 == setTimeout([s EXCEPT !.resolved = FALSE, !.promise = "pending"],
                       "timeout", timeoutDuration(v))
      s2 == IF packageName # ""
              THEN setTimeout(attempt(s1, "location", IntentUrl(packageName)),
                              "intentCheck", IntentDelay(v))
              ELSE s1
  IN  IF scheme # "" /\ ~s2.resolved
        THEN setTimeout(s2, "schemeStart", SchemeDelay(v))
        ELSE s2

\* A hidden check that does not test the resolved flag.
hiddenCheck_noGuard(s) ==
  IF s.hidden
    THEN resolve(clearTimeout([s EXCEPT !.resolved = TRUE], "timeout"), TRUE)
    ELSE s

\* A hidden check that forgets clearTimeout(timeout).
hiddenCheck_noClear(s) ==
  IF ~s.resolved /\ s.hidden
    THEN resolve([s EXCEPT !.resolved = TRUE], TRUE)
    ELSE s

\* if (!resolved && document.hidden) { resolved = true; clearTimeout; resolve(true) }
hiddenCheck(s) ==
  IF ~s.resolved /\ s.hidden
    THEN resolve(clearTimeout([s EXCEPT !.resolved = TRUE], "timeout"), TRUE)
    ELSE s

\* The callback of the intent attempt.
intentCheck(s) == hiddenCheck(s)

\* The delayed start of the custom-scheme attempt; a DOM failure is caught.
schemeStart(s, v, scheme) ==
  IF ~s.resolved
    THEN IF domFails THEN thrown(s)
         ELSE setTimeout(attempt(appendChild(s), "iframe", <<scheme>>),
                         "schemeCheck", SchemeCheckDelay(v))
    ELSE s

\* The callback of the custom-scheme attempt.
schemeCheck(s) ==
  LET c == hiddenCheck(s) IN
  IF "iframe" \in c.body THEN removeChild(c) ELSE c

\* detectGenericMobile(scheme) for a non-empty scheme: the promise executor.
detectGenericMobile(s, v, scheme) ==
  LET s1 == setTimeout([s EXCEPT !.resolved = FALSE, !.promise = "pending"],
                       "timeout", timeoutDuration(v))
  IN  IF domFails
        THEN resolve(clearTimeout(thrown([s1 EXCEPT !.resolved = (v = 2)]),
                                  "timeout"), FALSE)
        ELSE setTimeout(attempt(s1, "click", <<scheme>>),
                        "checkVisibility", GenericSettle(v))

\* checkVisibility of detectGenericMobile.
\* checkVisibility that re-arms itself on a visible page however much time
\* has elapsed.
checkVisibility_noDeadline(s, v) ==
  IF v = 1
    THEN IF s.hidden
           THEN resolve(clearTimeout(s, "timeout"), TRUE)
           ELSE setTimeout(s, "checkVisibility", GenericPoll(v))
    ELSE IF ~s.resolved
           THEN IF s.hidden
                  THEN resolve(clearTimeout([s EXCEPT !.resolved = TRUE], "timeout"), TRUE)
                  ELSE setTimeout(s, "checkVisibility", GenericPoll(v))
           ELSE s

checkVisibility(s, v) ==
  LET timeElapsed == now - s.startTime IN
  IF v = 1
    THEN IF s.hidden
           THEN resolve(clearTimeout(s, "timeout"), TRUE)
           ELSE IF timeElapsed < timeoutDuration(v)
                  THEN setTimeout(s, "checkVisibility", GenericPoll(v))
                  ELSE s
    ELSE IF ~s.resolved
           THEN IF s.hidden
                  THEN resolve(clearTimeout([s EXCEPT !.resolved = TRUE], "timeout"), TRUE)
                  ELSE IF timeElapsed < timeoutDuration(v)
                         THEN setTimeout(s, "checkVisibility", GenericPoll(v))
                         ELSE s
           ELSE s

\* The branch detectApp takes for a device and a config.
Branch(dev, cfg) ==
  IF dev.isIOS /\ cfg.iosScheme # "" THEN "ios"
  ELSE IF dev.isAndroid /\ (cfg.androidScheme # "" \/ cfg.androidPackage # "")
         THEN "android"
  ELSE IF dev.isMobile THEN "generic"
  ELSE "desktop"

Method(p) ==
  IF p = "ios" THEN "iOS URL Scheme"
  ELSE IF p = "android" THEN "Android Intent/Scheme"
  ELSE IF p = "generic" THEN "Generic Mobile Detection"
  ELSE "Desktop/Unsupported"

GenericScheme(cfg) == IF cfg.iosScheme # "" THEN cfg.iosScheme ELSE cfg.androidScheme

\* detectApp(config) up to its await (or to its return when nothing is awaited).
detectApp(s, v, dev, cfg) ==
  LET p == Branch(dev, cfg)
      s0 == [s EXCEPT !.fn = "detectApp"]
  IN  IF p = "ios" THEN detectIOSApp(s0, v, cfg.iosScheme)
      ELSE IF p = "android"
             THEN detectAndroidApp(s0, v, cfg.androidScheme, cfg.androidPackage)
      ELSE IF p = "generic" /\ GenericScheme(cfg) # ""
             THEN detectGenericMobile(s0, v, GenericScheme(cfg))
      ELSE [s0 EXCEPT !.isInstalled = "false"]

\* --------------------------------------------------------- landing page
\* const isMobile = isIOS || isAndroid
isMobile(dev) == dev.isIOS \/ dev.isAndroid

\* sendToAPI(): the POST of the page's link; its outcome is ignored.
sendToAPI(s) == attempt(s, "fetch", <<CONFIG.apiUrl>>)

\* openApp(): the promise executor.
openApp(s, dev) ==
  LET s1 == [s EXCEPT !.opened = FALSE, !.promise = "pending",
                      !.listeners = @ \cup {"visibilitychange", "pagehide"}]
      s2 == setTimeout(s1, "openAppTimeout", OpenAppTimeout)
  IN  IF dev.isIOS
        THEN attempt(s2, "location", <<CONFIG.deepLink>>)
      ELSE IF dev.isAndroid
        THEN IF domFails
               THEN reject(thrown(s2))
               ELSE setTimeout(attempt(appendChild(s2), "iframe", <<CONFIG.deepLink>>),
                               "openAppIframeRemove", OpenAppIframeLinger)
      ELSE s2

\* detectOpen that does not test document.hidden.
detectOpen_noHiddenTest(s) == resolve([s EXCEPT !.opened = TRUE], TRUE)

\* detectOpen of openApp.
detectOpen(s) ==
  IF s.hidden THEN resolve([s EXCEPT !.opened = TRUE], TRUE) ELSE s

\* The 2500 ms callback of openApp.
openAppTimeout(s) ==
  resolve([s EXCEPT !.listeners = @ \ {"visibilitychange", "pagehide"}], s.opened)

\* The 1000 ms callback of openApp on Android.
openAppIframeRemove(s) == removeChild(s)

\* redirectToStore that always picks the Android store.
redirectToStore_androidOnly(s, dev) ==
  attempt(s, "location", <<CONFIG.androidStore>>)

redirectToStore(s, dev) ==
  attempt(s, "location",
          <<IF dev.isIOS THEN CONFIG.iosStore ELSE CONFIG.androidStore>>)

\* main that skips the isMobile test.
main_noMobileTest(s, dev) ==
  openApp([sendToAPI([s EXCEPT !.fn = "main"]) EXCEPT !.ui = "loading"], dev)

\* main() up to its await (or to its return on a device that is not mobile).
main(s, dev) ==
  LET s0 == sendToAPI([s EXCEPT !.fn = "main"])
  IN  IF ~isMobile(dev)
        THEN [s0 EXCEPT !.ui = "desktop"]
        ELSE openApp([s0 EXCEPT !.ui = "loading"], dev)

\* openAppOrStore that navigates whatever the platform is.
openAppOrStore_noPlatformTest(s, deepLink, dev, safari) ==
  attempt([s EXCEPT !.fn = "openAppOrStore", !.ui = "attempting"],
          "location", <<deepLink>>)

\* openAppOrStore(deepLink, androidStoreLink, iosStoreLink, appName).
openAppOrStore(s, deepLink, dev, safari) ==
  LET s0 == [s EXCEPT !.fn = "openAppOrStore"]
  IN  IF dev.isIOS \/ dev.isAndroid \/ safari
        THEN attempt([s0 EXCEPT !.ui = "attempting"], "location", <<deepLink>>)
        ELSE [s0 EXCEPT !.ui = "mobileOnly"]

\* The listener registered for an event type, run when the event is dispatched.
dispatch(s, type) ==
  IF type \notin s.listeners THEN s
  ELSE IF s.fn = "main" THEN detectOpen(s)
  ELSE IF type = "blur" THEN onBlur(s)
  ELSE onHide(s)

\* ------------------------------------------------ src/main.js, the redirect page
MY_LINK == "https://your-domain.com"

\* window.location.search of the page; the same string at every read.
QueryParams == {"", "?id=1"}

\* detectDevice: the iOS test comes first, then the Android test.
detectDevice(dev) ==
  IF dev.isIOS THEN "ios" ELSE IF dev.isAndroid THEN "android" ELSE "other"

\* redirectBasedOnDevice: one assignment of location.href on iOS and on
\* Android, the handler page written into #app on any other device.
redirectBasedOnDevice(s, dev, q) ==
  IF detectDevice(dev) = "ios"
    THEN attempt(s, "location", <<MY_LINK, "/.well-known/assetlinks.json", q>>)
  ELSE IF detectDevice(dev) = "android"
    THEN attempt(s, "location", <<MY_LINK, "/.pathfor-android", q>>)
  ELSE attempt([s EXCEPT !.ui = "handlerPage"], "render", <<detectDevice(dev), q>>)

\* The values of document.readyState, and whether the document's
\* DOMContentLoaded event is still to be dispatched in each of them: always
\* while loading, never once complete, either way while interactive (a
\* deferred or module script runs before the event, a late-injected one after).
ReadyStates == {"loading", "interactive", "complete"}
DclPendingIn(readyState) ==
  IF readyState = "loading" THEN {TRUE}
  ELSE IF readyState = "complete" THEN {FALSE}
  ELSE BOOLEAN

\* The top level of src/main.js, lines 62-70. addEventListener with a
\* listener that is already registered does nothing, so the set of listeners
\* holds the handler once. An event still to come waits in the host's queue.
redirectScript(s, dev, q, readyState, dclPending) ==
  LET s0 == [s EXCEPT !.fn = "redirect", !.listeners = @ \cup {"DOMContentLoaded"}]
      s1 == IF dclPending THEN setTimeout(s0, "DOMContentLoaded", 0) ELSE s0
  IN IF readyState = "loading"
       THEN [s1 EXCEPT !.listeners = @ \cup {"DOMContentLoaded"}]
       ELSE redirectBasedOnDevice(s1, dev, q)

\* The dispatch of DOMContentLoaded to the listeners registered for it.
dispatchDOMContentLoaded(s, dev, q) ==
  IF "DOMContentLoaded" \in s.listeners THEN redirectBasedOnDevice(s, dev, q) ELSE s

\* ---------------------------------------------------------------- actions
Init ==
  /\ now = 0
  /\ hidden \in BOOLEAN
  /\ domFails \in BOOLEAN
  /\ timers = {}
  /\ timerSeq = 0
  /\ body = {}
  /\ attempts = <<>>
  /\ listeners = {}
  /\ fn = "none"
  /\ opts = NoOpts
  /\ version = 0
  /\ path = "none"
  /\ config = NoConfig
  /\ startTime = 0
  /\ done = FALSE
  /\ resolved = FALSE
  /\ promise = "none"
  /\ isInstalled = "none"
  /\ detectionMethod = ""
  /\ resolveCalls = 0
  /\ cleanupCalls = 0
  /\ uncaught = FALSE
  /\ verdict = "none"
  /\ resolvedBy = "none"
  /\ resolvedAt = 0
  /\ hiddenAtResolve = FALSE
  /\ signalled = FALSE
  /\ timeoutRan = FALSE
  /\ hiddenInWindow = FALSE
  /\ device = NoDevice
  /\ everHidden = FALSE
  /\ domThrew = FALSE
  /\ caller = "none"
  /\ opened = FALSE
  /\ ui = ""
  /\ clicks = 0
  /\ isSafari = FALSE
  /\ hiddenPastSettle = FALSE
  /\ sessions = [i \in SessionIds |-> IdleSession]
  /\ pageTimers = {}
  /\ pageBody = {}
  /\ detectionResults = NoResults
  /\ completions = 0
  /\ lastClear = 0
  /\ batch = NoBatch

\* At clock value time the settle delay of a detectIOSApp session has elapsed.
PastSettle(time) ==
  /\ fn = "detectApp" /\ path = "ios"
  /\ time >= startTime + IosSettle(version)

\* The page after a task that left the session as s; by names the handler.
Commit(s, by) ==
  /\ UNCHANGED multiVars
  /\ fn' = s.fn
  /\ timers' = s.timers
  /\ timerSeq' = s.timerSeq
  /\ body' = s.body
  /\ attempts' = s.attempts
  /\ listeners' = s.listeners
  /\ done' = s.done
  /\ resolved' = s.resolved
  /\ promise' = s.promise
  /\ isInstalled' = s.isInstalled
  /\ resolveCalls' = s.resolveCalls
  /\ cleanupCalls' = s.cleanupCalls
  /\ uncaught' = s.uncaught
  /\ verdict' = s.verdict
  /\ domThrew' = s.domThrew
  /\ opened' = s.opened
  /\ ui' = s.ui
  /\ IF resolveCalls = 0 /\ s.resolveCalls > 0
       THEN /\ resolvedBy' = by
            /\ resolvedAt' = now
            /\ hiddenAtResolve' = s.hidden
       ELSE UNCHANGED <<resolvedBy, resolvedAt, hiddenAtResolve>>

\* Timers run in the order of their due times, and of their creation when
\* these are equal; Due(id) is the next timer to run when it is the one named id.
Due(id) ==
  {x \in timers :
     /\ x.id = id
     /\ x.due <= now
     /\ \A y \in timers : y.due > x.due \/ (y.due = x.due /\ y.seq >= x.seq)}

\* A call of tryOpenApp on a fresh page.
TryOpenApp(scheme, timeout, openMethod) ==
  /\ fn = "none"
  /\ opts' = [scheme |-> scheme, timeout |-> timeout, openMethod |-> openMethod]
  /\ startTime' = now
  /\ everHidden' = hidden
  /\ Commit(tryOpenApp(Cur(timers, hidden), scheme, timeout, openMethod), "start")
  /\ UNCHANGED <<now, hidden, domFails, version, path, config, detectionMethod,
                 device, caller, signalled, timeoutRan, hiddenInWindow, hiddenPastSettle, clicks,
                 isSafari>>

\* A call of openOrStore() on a fresh page of a visitor with device dev.
OpenOrStore(dev) ==
  /\ fn = "none"
  /\ opts' = [scheme |-> "whatsapp://", timeout |-> OpenOrStoreTimeout,
              openMethod |-> "href"]
  /\ startTime' = now
  /\ device' = dev
  /\ caller' = "openOrStore"
  /\ everHidden' = hidden
  /\ Commit(tryOpenApp(Cur(timers, hidden), "whatsapp://", OpenOrStoreTimeout, "href"),
            "start")
  /\ UNCHANGED <<now, hidden, domFails, version, path, config, detectionMethod,
                 signalled, timeoutRan, hiddenInWindow, hiddenPastSettle, clicks, isSafari>>

\* A button of the demo page calls openAppOrStore for a visitor with device dev.
OpenAppOrStore(deepLink, dev, safari) ==
  /\ fn = "none"
  /\ opts' = [scheme |-> deepLink, timeout |-> 0, openMethod |-> "href"]
  /\ startTime' = now
  /\ device' = dev
  /\ isSafari' = safari
  /\ everHidden' = hidden
  /\ Commit(openAppOrStore(Cur(timers, hidden), deepLink, dev, safari), "start")
  /\ UNCHANGED <<now, hidden, domFails, version, path, config, detectionMethod,
                 caller, signalled, timeoutRan, hiddenInWindow, hiddenPastSettle, clicks>>

\* The landing page script runs main() for a visitor with device dev.
Main(dev) ==
  /\ fn = "none"
  /\ startTime' = now
  /\ device' = dev
  /\ everHidden' = hidden
  /\ Commit(main(Cur(timers, hidden), dev), "start")
  /\ UNCHANGED <<now, hidden, domFails, opts, version, path, config,
                 detectionMethod, caller, signalled, timeoutRan, hiddenInWindow, hiddenPastSettle,
                 clicks, isSafari>>

\* The visitor clicks the store button once main has set its handler.
StoreBtnClick ==
  /\ fn = "main" /\ ui = "store"
  /\ clicks < MaxClicks
  /\ clicks' = clicks + 1
  /\ Commit(redirectToStore(Cur(timers, hidden), device), "click")
  /\ UNCHANGED <<now, hidden, domFails, callVars, signalled, timeoutRan,
                 hiddenInWindow, hiddenPastSettle, everHidden>>

\* A call of detectApp(config) of detector class v on a fresh page.
DetectApp(v, dev, cfg) ==
  /\ fn = "none"
  /\ version' = v
  /\ config' = cfg
  /\ path' = Branch(dev, cfg)
  /\ detectionMethod' = Method(Branch(dev, cfg))
  /\ startTime' = now
  /\ device' = dev
  /\ everHidden' = hidden
  /\ Commit(detectApp(Cur(timers, hidden), v, dev, cfg), "start")
  /\ UNCHANGED <<now, hidden, domFails, opts, caller, signalled, timeoutRan,
                 hiddenInWindow, hiddenPastSettle, clicks, isSafari>>

\* The page is hidden or shown; visibilitychange is dispatched afterwards.
VisibilityChange ==
  /\ (fn = "main" /\ ~hidden) => resolveCalls < MaxResolveCalls
  /\ hidden' = ~hidden
  /\ signalled' = (signalled \/ "visibilitychange" \in listeners)
  /\ hiddenInWindow' = (hiddenInWindow \/ (/\ ~hidden
                                            /\ fn = "detectApp"
                                            /\ promise = "pending"
                                            /\ resolveCalls = 0
                                            /\ now < startTime + timeoutDuration(version)))
  /\ everHidden' = (fn # "none" /\ (everHidden \/ ~hidden))
  /\ hiddenPastSettle' = (hiddenPastSettle \/ (~hidden /\ PastSettle(now)))
  /\ Commit(dispatch(Cur(timers, ~hidden), "visibilitychange"), "visibilitychange")
  /\ UNCHANGED <<now, domFails, callVars, timeoutRan, clicks>>

\* pagehide is dispatched: the page is being unloaded or put away.
PageHide ==
  /\ (fn = "main" /\ hidden) => resolveCalls < MaxResolveCalls
  /\ signalled' = (signalled \/ "pagehide" \in listeners)
  /\ Commit(dispatch(Cur(timers, hidden), "pagehide"), "pagehide")
  /\ UNCHANGED <<now, hidden, domFails, callVars, timeoutRan, hiddenInWindow, hiddenPastSettle,
                 everHidden, clicks>>

\* blur is dispatched: the window lost focus.
Blur ==
  /\ signalled' = (signalled \/ "blur" \in listeners)
  /\ Commit(dispatch(Cur(timers, hidden), "blur"), "blur")
  /\ UNCHANGED <<now, hidden, domFails, callVars, timeoutRan, hiddenInWindow, hiddenPastSettle,
                 everHidden, clicks>>

\* Time passes while a timer is pending, unless one would become MaxLate late.
Advance ==
  /\ timers # {}
  /\ now < MaxTime
  /\ \A x \in timers : x.due + MaxLate > now
  /\ now' = now + Tick
  /\ hiddenPastSettle' =
       (hiddenPastSettle \/ (hidden /\ PastSettle(now + Tick)))
  /\ UNCHANGED <<hidden, domFails, timers, timerSeq, body, attempts, listeners, fn,
                 callVars, done, resolved, promise, isInstalled, resolveCalls,
                 cleanupCalls, uncaught, verdict, resolvedBy, resolvedAt,
                 hiddenAtResolve, signalled, timeoutRan, hiddenInWindow,
                 everHidden, domThrew, opened, ui, clicks, multiVars>>

frame == <<now, hidden, domFails, callVars, signalled, hiddenInWindow, hiddenPastSettle, everHidden,
           clicks>>

\* tryOpenApp's timer t fires.
TimerT ==
  \E x \in Due("t") :
    /\ timeoutRan' = TRUE
    /\ Commit(tCallback(Cur(timers \ {x}, hidden)), "timeout")
    /\ UNCHANGED frame

\* tryOpenApp's iframe removal timer fires.
TimerIframeRemove ==
  \E x \in Due("iframeRemove") :
    /\ Commit(iframeRemove(Cur(timers \ {x}, hidden)), "iframeRemove")
    /\ UNCHANGED <<frame, timeoutRan>>

\* A detector's timeout timer fires.
TimerTimeout ==
  \E x \in Due("timeout") :
    /\ timeoutRan' = TRUE
    /\ Commit(timeoutCallback(Cur(timers \ {x}, hidden), version, path), "timeout")
    /\ UNCHANGED frame

TimerSettle ==
  \E x \in Due("settle") :
    /\ Commit(iosSettle(Cur(timers \ {x}, hidden), version), "checkInstallation")
    /\ UNCHANGED <<frame, timeoutRan>>

TimerCheckInstallation ==
  \E x \in Due("checkInstallation") :
    /\ Commit(checkInstallation(Cur(timers \ {x}, hidden), version), "checkInstallation")
    /\ UNCHANGED <<frame, timeoutRan>>

TimerCleanup ==
  \E x \in Due("cleanup") :
    /\ Commit(iosCleanup(Cur(timers \ {x}, hidden)), "cleanup")
    /\ UNCHANGED <<frame, timeoutRan>>

TimerIntentCheck ==
  \E x \in Due("intentCheck") :
    /\ Commit(intentCheck(Cur(timers \ {x}, hidden)), "intentCheck")
    /\ UNCHANGED <<frame, timeoutRan>>

TimerSchemeStart ==
  \E x \in Due("schemeStart") :
    /\ Commit(schemeStart(Cur(timers \ {x}, hidden), version, config.androidScheme),
              "schemeStart")
    /\ UNCHANGED <<frame, timeoutRan>>

TimerSchemeCheck ==
  \E x \in Due("schemeCheck") :
    /\ Commit(schemeCheck(Cur(timers \ {x}, hidden)), "schemeCheck")
    /\ UNCHANGED <<frame, timeoutRan>>

TimerCheckVisibility ==
  \E x \in Due("checkVisibility") :
    /\ Commit(checkVisibility(Cur(timers \ {x}, hidden), version), "checkVisibility")
    /\ UNCHANGED <<frame, timeoutRan>>

\* openApp's 2500 ms timer fires.
TimerOpenAppTimeout ==
  \E x \in Due("openAppTimeout") :
    /\ timeoutRan' = TRUE
    /\ Commit(openAppTimeout(Cur(timers \ {x}, hidden)), "timeout")
    /\ UNCHANGED frame

\* openApp's iframe removal timer fires.
TimerOpenAppIframeRemove ==
  \E x \in Due("openAppIframeRemove") :
    /\ Commit(openAppIframeRemove(Cur(timers \ {x}, hidden)), "iframeRemove")
    /\ UNCHANGED <<frame, timeoutRan>>

\* main's 2000 ms redirect timer fires.
TimerRedirect ==
  \E x \in Due("redirect") :
    /\ Commit(redirectToStore(Cur(timers \ {x}, hidden), device), "redirect")
    /\ UNCHANGED <<frame, timeoutRan>>

\* The redirect page's script runs, for a visitor with device dev, at
\* document.readyState readyState with the query string q.
RedirectScript(dev, q, readyState, dclPending) ==
  /\ fn = "none"
  /\ startTime' = now
  /\ device' = dev
  /\ everHidden' = hidden
  /\ opts' = [scheme |-> q, timeout |-> 0, openMethod |-> "href"]  \* location.search
  /\ path' = readyState
  /\ Commit(redirectScript(Cur(timers, hidden), dev, q, readyState, dclPending), "start")
  /\ UNCHANGED <<now, hidden, domFails, version, detectionMethod, config,
                 caller, signalled, timeoutRan, hiddenInWindow, hiddenPastSettle,
                 clicks, isSafari>>

\* The host dispatches the document's DOMContentLoaded event.
TimerDOMContentLoaded ==
  \E x \in Due("DOMContentLoaded") :
    /\ Commit(dispatchDOMContentLoaded(Cur(timers \ {x}, hidden), device, opts.scheme),
              "DOMContentLoaded")
    /\ UNCHANGED <<frame, timeoutRan>>

FireTimer ==
  \/ TimerT
  \/ TimerIframeRemove
  \/ TimerTimeout
  \/ TimerSettle
  \/ TimerCheckInstallation
  \/ TimerCleanup
  \/ TimerIntentCheck
  \/ TimerSchemeStart
  \/ TimerSchemeCheck
  \/ TimerCheckVisibility
  \/ TimerOpenAppTimeout
  \/ TimerOpenAppIframeRemove
  \/ TimerRedirect
  \/ TimerDOMContentLoaded

Next ==
  \/ \E scheme \in Schemes, timeout \in Timeouts, openMethod \in OpenMethods :
       TryOpenApp(scheme, timeout, openMethod)
  \/ \E v \in {1, 2}, dev \in Devices, cfg \in Configs : DetectApp(v, dev, cfg)
  \/ \E dev \in Devices : OpenOrStore(dev)
  \/ \E dev \in Devices : Main(dev)
  \/ \E deepLink \in DeepLinks, dev \in Devices, safari \in BOOLEAN :
       OpenAppOrStore(deepLink, dev, safari)
  \/ \E dev \in Devices, q \in QueryParams, readyState \in ReadyStates :
       \E dclPending \in DclPendingIn(readyState) :
         RedirectScript(dev, q, readyState, dclPending)
  \/ StoreBtnClick
  \/ VisibilityChange
  \/ PageHide
  \/ Blur
  \/ Advance
  \/ FireTimer

Spec == Init /\ [][Next]_vars

\* The event loop runs every due timer and the clock does not stop.
FairSpec == Spec /\ WF_vars(FireTimer) /\ WF_vars(Advance)

\* ------------------------------------- overlapping calls on one detector
\* Several detectApp calls on the shared appDetector of one page. Each call
\* has its own closure (rec); the timers of all calls wait in one host queue,
\* the iframes hang in one document.body, and the results map is shared.

\* The state of the page that a single call does not use stays as it was.
singleRest == <<domFails, timers, body, attempts, listeners, fn, opts, version,
                path, config, startTime, done, resolved, promise, isInstalled,
                detectionMethod, resolveCalls, cleanupCalls, uncaught, verdict,
                resolvedBy, resolvedAt, hiddenAtResolve, signalled, timeoutRan,
                hiddenInWindow, device, everHidden, domThrew, caller, opened, ui,
                clicks, isSafari, hiddenPastSettle>>

Strip(x) == [id |-> x.id, due |-> x.due, seq |-> x.seq]

\* Timer handles kept in one place for all calls (a field of the detector).
Handles_shared(i) == pageTimers

\* The timers whose handles the closures of call i hold (const timeout = ...).
Handles(i) == {x \in pageTimers : x.sid = i}

\* The closure state of call i as one of its callbacks sees it.
View(i) ==
  [sessions[i].rec EXCEPT !.timers = {Strip(x) : x \in Handles(i)},
                          !.timerSeq = timerSeq,
                          !.hidden = hidden,
                          !.body = IF i \in pageBody THEN {"iframe"} ELSE {}]

\* A set that keeps the entry an appName already has.
detectionResultsSet_keepFirst(results, appName, result) ==
  IF results[appName] # NoResult THEN results
  ELSE [results EXCEPT ![appName] = result]

\* this.detectionResults.set(appName, result)
detectionResultsSet(results, appName, result) ==
  [results EXCEPT ![appName] = result]

\* The page after a task of call i that left its closure as s. When the task
\* made detectApp return, the result is stored under the call's appName.
CommitCall(i, s, appName, p) ==
  LET old == View(i)
      removed == old.timers \ s.timers
      added == s.timers \ old.timers
      returned == sessions[i].rec.isInstalled = "none" /\ s.isInstalled # "none"
  IN  /\ pageTimers' = {x \in pageTimers : Strip(x) \notin removed}
                          \cup {[id |-> x.id, due |-> x.due, seq |-> x.seq,
                                 sid |-> IF x.id = "batchDelay" THEN i + 1 ELSE i]
                                  : x \in added}
      /\ timerSeq' = s.timerSeq
      /\ pageBody' = IF "iframe" \in s.body THEN pageBody \cup {i}
                                            ELSE pageBody \ {i}
      /\ sessions' =
           [sessions EXCEPT ![i] =
              [ appName |-> appName, path |-> p,
                completedSeq |-> IF returned THEN completions + 1
                                             ELSE sessions[i].completedSeq,
                rec |-> [s EXCEPT !.timers = {}, !.timerSeq = 0,
                                  !.hidden = FALSE, !.body = {}] ]]
      /\ IF returned
           THEN /\ detectionResults' =
                     detectionResultsSet(detectionResults, appName,
                       [ isInstalled |-> s.isInstalled,
                         detectionMethod |-> Method(p), call |-> i ])
                /\ completions' = completions + 1
           ELSE UNCHANGED <<detectionResults, completions>>
      /\ UNCHANGED lastClear

\* The callback of the timer named id, for detector class v on branch p.
RunTimer(s, id, v, p, cfg) ==
  IF id = "timeout" THEN timeoutCallback(s, v, p)
  ELSE IF id = "settle" THEN iosSettle(s, v)
  ELSE IF id = "checkInstallation" THEN checkInstallation(s, v)
  ELSE IF id = "cleanup" THEN iosCleanup(s)
  ELSE IF id = "intentCheck" THEN intentCheck(s)
  ELSE IF id = "schemeStart" THEN schemeStart(s, v, cfg.androidScheme)
  ELSE IF id = "schemeCheck" THEN schemeCheck(s)
  ELSE checkVisibility(s, v)

\* One page, one detector of either class, one device; no call made yet.
MultiInit ==
  /\ now = 0
  /\ hidden \in BOOLEAN
  /\ domFails \in BOOLEAN
  /\ version \in {1, 2}
  /\ device \in {dev \in Devices : ~(dev.isIOS /\ dev.isAndroid)}
  /\ timers = {} /\ timerSeq = 0 /\ body = {} /\ attempts = <<>>
  /\ listeners = {} /\ fn = "none" /\ opts = NoOpts /\ path = "none"
  /\ config = NoConfig /\ startTime = 0 /\ done = FALSE /\ resolved = FALSE
  /\ promise = "none" /\ isInstalled = "none" /\ detectionMethod = ""
  /\ resolveCalls = 0 /\ cleanupCalls = 0 /\ uncaught = FALSE
  /\ verdict = "none" /\ resolvedBy = "none" /\ resolvedAt = 0
  /\ hiddenAtResolve = FALSE /\ signalled = FALSE /\ timeoutRan = FALSE
  /\ hiddenInWindow = FALSE /\ everHidden = FALSE /\ domThrew = FALSE
  /\ caller = "none" /\ opened = FALSE /\ ui = "" /\ clicks = 0
  /\ isSafari = FALSE /\ hiddenPastSettle = FALSE
  /\ sessions = [i \in SessionIds |-> IdleSession]
  /\ pageTimers = {}
  /\ pageBody = {}
  /\ detectionResults = NoResults
  /\ completions = 0
  /\ lastClear = 0
  /\ batch = NoBatch

\* Call i of appDetector.detectApp(config) for the app named appName; calls
\* are numbered in the order they are made, and the first one names WhatsApp.
CallDetectApp(i, appName) ==
  /\ sessions[i].appName = ""
  /\ i = 1 => appName = "WhatsApp"
  /\ \A j \in SessionIds : j < i => sessions[j].appName # ""
  /\ now <= MaxStart
  /\ CommitCall(i, detectApp([View(i) EXCEPT !.startTime = now], version, device,
                             FullConfig(appName)),
                appName, Branch(device, FullConfig(appName)))
  /\ UNCHANGED <<now, hidden, singleRest, batch>>

\* The host runs the next due timer of the queue: a callback of the call that
\* created it.
CallTimer ==
  \E x \in pageTimers :
    /\ x.due <= now
    /\ \A y \in pageTimers : y.due > x.due \/ (y.due = x.due /\ y.seq >= x.seq)
    /\ LET i == x.sid
           s0 == [View(i) EXCEPT !.timers = @ \ {Strip(x)}]
       IN  CommitCall(i, RunTimer(s0, x.id, version, sessions[i].path,
                                  FullConfig(sessions[i].appName)),
                      sessions[i].appName, sessions[i].path)
    /\ UNCHANGED <<now, hidden, singleRest, batch>>

\* appDetector.clearResults()
ClearResults ==
  /\ detectionResults # NoResults
  /\ detectionResults' = NoResults
  /\ lastClear' = completions
  /\ UNCHANGED <<now, hidden, timerSeq, singleRest, sessions, pageTimers, pageBody,
                 completions, batch>>

\* The page is hidden or shown; the detectors register no listener.
PageVisibility ==
  /\ hidden' = ~hidden
  /\ UNCHANGED <<now, timerSeq, singleRest, multiVars>>

\* Time passes while a timer is pending and none is due: here the host runs
\* every timer at the clock value it is due.
PageAdvance ==
  /\ pageTimers # {}
  /\ now < MaxTime
  /\ \A x \in pageTimers : x.due > now
  /\ now' = now + Tick
  /\ UNCHANGED <<hidden, timerSeq, singleRest, multiVars>>

MultiNext ==
  \/ \E i \in SessionIds, appName \in AppNames : CallDetectApp(i, appName)
  \/ CallTimer
  \/ ClearResults
  \/ PageVisibility
  \/ PageAdvance

MultiSpec == MultiInit /\ [][MultiNext]_vars

\* ---------------------------------------------------- detectMultipleApps
\* One call of detectMultipleApps(appConfigs) on the shared detector: the
\* calls of detectApp are sessions 1, 2 in the order of appConfigs, and the
\* delay between them is a timer of the same host queue.
BatchDelay1 == 500
BatchDelay2 == 1000
BatchDelay(v) == IF v = 1 THEN BatchDelay1 ELSE BatchDelay2

appConfigs == <<"WhatsApp", "Telegram">>

\* A loop that does not await detectApp: the delay is armed when the call is
\* made, and the result is pushed when it arrives.
BatchCommit_noAwait(k, s, p) ==
  LET returned == sessions[k].rec.isInstalled = "none" /\ s.isInstalled # "none"
      delayed == sessions[k].appName = "" /\ (version = 1 \/ k < Len(appConfigs))
      s2 == IF delayed THEN setTimeout(s, "batchDelay", BatchDelay(version)) ELSE s
  IN  /\ CommitCall(k, s2, appConfigs[k], p)
      /\ batch' =
           IF returned
             THEN [batch EXCEPT
                     !.pos = IF @ < k THEN k ELSE @,
                     !.results = Append(@, [ appName |-> appConfigs[k],
                                             isInstalled |-> s.isInstalled ]),
                     !.lastPush = now]
             ELSE [batch EXCEPT !.pos = IF @ < k THEN k ELSE @]

\* The page after a task of the detectApp call for appConfigs[k] that left its
\* closure as s. When the task made detectApp return, the loop resumes: it
\* pushes the result and awaits the delay timer; the logging class skips the
\* delay after the last config and returns the array. The delay timer is
\* queued under the number of the call its callback starts.
BatchCommit(k, s, p) ==
  LET returned == sessions[k].rec.isInstalled = "none" /\ s.isInstalled # "none"
      delayed == returned /\ (version = 1 \/ k < Len(appConfigs))
      s2 == IF delayed THEN setTimeout(s, "batchDelay", BatchDelay(version)) ELSE s
  IN  /\ CommitCall(k, s2, appConfigs[k], p)
      /\ batch' =
           IF returned
             THEN [batch EXCEPT
                     !.pos = IF @ < k THEN k ELSE @,
                     !.results = Append(@, [ appName |-> appConfigs[k],
                                             isInstalled |-> s.isInstalled ]),
                     !.lastPush = now,
                     !.returned = ~delayed]
             ELSE [batch EXCEPT !.pos = IF @ < k THEN k ELSE @]

\* const result = await this.detectApp(config), for config appConfigs[k], in a
\* task that leaves the timers ts of the loop pending.
StartConfig(k, ts) ==
  BatchCommit(k,
              detectApp([View(k) EXCEPT !.timers = ts, !.startTime = now],
                        version, device, FullConfig(appConfigs[k])),
              Branch(device, FullConfig(appConfigs[k])))

\* appDetector.detectMultipleApps(appConfigs)
DetectMultipleApps ==
  /\ batch.pos = 0
  /\ StartConfig(1, {})
  /\ UNCHANGED <<now, hidden, singleRest>>

\* The host runs the next due timer: a callback of a detectApp call, or the
\* delay of the loop, after which the next call starts (in the first class,
\* after the last config, the array is returned).
BatchTimer ==
  \E x \in pageTimers :
    /\ x.due <= now
    /\ \A y \in pageTimers : y.due > x.due \/ (y.due = x.due /\ y.seq >= x.seq)
    /\ IF x.id # "batchDelay"
         THEN BatchCommit(x.sid,
                          RunTimer([View(x.sid) EXCEPT !.timers = @ \ {Strip(x)}],
                                   x.id, version, sessions[x.sid].path,
                                   FullConfig(sessions[x.sid].appName)),
                          sessions[x.sid].path)
         ELSE IF x.sid <= Len(appConfigs)
           THEN StartConfig(x.sid, View(x.sid).timers \ {Strip(x)})
           ELSE /\ pageTimers' = pageTimers \ {x}
                /\ batch' = [batch EXCEPT !.returned = TRUE]
                /\ UNCHANGED <<timerSeq, sessions, pageBody, detectionResults,
                               completions, lastClear>>
    /\ UNCHANGED <<now, hidden, singleRest>>

\* The self-rescheduling polls of checkInstallation and checkVisibility.
PollIds == {"checkInstallation", "checkVisibility"}

\* Time passes while a timer is pending, unless one would become MaxLate late;
\* the host runs the polls at the clock value they are due.
BatchAdvance ==
  /\ pageTimers # {}
  /\ now < MaxBatchTime
  /\ \A x \in pageTimers :
       IF x.id \in PollIds THEN x.due > now ELSE x.due + MaxLate > now
  /\ now' = now + Tick
  /\ UNCHANGED <<hidden, timerSeq, singleRest, multiVars>>

BatchNext ==
  \/ DetectMultipleApps
  \/ BatchTimer
  \/ PageVisibility
  \/ BatchAdvance

BatchSpec == MultiInit /\ [][BatchNext]_vars

\* ------------------------------------------------------------ properties
IsTry == fn = "tryOpenApp"
IsDetect(v) == fn = "detectApp" /\ version = v
Pending(id) == \E x \in timers : x.id = id
TryCanReject == domFails /\ opts.openMethod = "iframe"

\* C1: in a tryOpenApp session resolve is called at most once and cleanup runs
\* at most once, whatever events and timer firings occur; the session is done
\* exactly when both have happened once, the timeout callback always leaves it
\* done, and a session that is not done still has its timeout timer pending.
C1_SingleResolution ==
  IsTry =>
    /\ resolveCalls <= 1
    /\ cleanupCalls = resolveCalls
    /\ done <=> resolveCalls = 1
    /\ timeoutRan => done
    /\ ~done => Pending("t")
    /\ done => promise \in (IF TryCanReject THEN {"rejected"} ELSE {"true", "false"})

\* C1 witness: an event was delivered without resolving (blur while visible),
\* then the timeout fired late and resolved the session, once.
C1_Witness ==
  /\ IsTry /\ done /\ signalled
  /\ resolvedBy = "timeout"
  /\ resolvedAt > startTime + opts.timeout
  /\ resolveCalls = 1 /\ cleanupCalls = 1

\* C2 (as claimed): in the first MobileAppDetector no callback of a detectApp
\* session throws, and a detectApp call that has not returned still has its
\* timeout timer pending, so that it resolves in the end.
C2_AlwaysResolves ==
  IsDetect(1) =>
    /\ ~uncaught
    /\ isInstalled = "none" => Pending("timeout")

\* C3: in the logging MobileAppDetector no callback throws and every detectApp
\* call eventually returns a result with a boolean isInstalled.
C3_LoggingResolves ==
  /\ [](IsDetect(2) => ~uncaught /\ (isInstalled = "none" => Pending("timeout")))
  /\ (IsDetect(2) ~> (isInstalled \in {"true", "false"}))

\* C3 witness: the poll of the iOS path found the page hidden and the call
\* returned true; the page became visible again afterwards.
C3_Witness ==
  /\ IsDetect(2) /\ path = "ios"
  /\ isInstalled = "true" /\ resolvedBy = "checkInstallation" /\ ~hidden

\* C4: while no event has been delivered to a tryOpenApp session, the session
\* is unresolved until its timeout callback runs, that callback resolves it to
\* false, and it does not run before the timeout has elapsed.
C4_TimeoutOnly ==
  (IsTry /\ ~signalled) =>
    /\ ~timeoutRan => /\ resolveCalls = 0
                      /\ [id |-> "t", due |-> startTime + opts.timeout, seq |-> 0] \in timers
                      /\ promise = (IF TryCanReject THEN "rejected" ELSE "pending")
    /\ timeoutRan => /\ resolveCalls = 1
                     /\ verdict = "false"
                     /\ resolvedBy = "timeout"
                     /\ resolvedAt >= startTime + opts.timeout
                     /\ promise = (IF TryCanReject THEN "rejected" ELSE "false")

\* C4 witness: the timeout callback resolved an unsignalled session to false.
C4_Witness ==
  IsTry /\ ~signalled /\ timeoutRan /\ promise = "false" /\ resolvedBy = "timeout"

SignalStep == VisibilityChange \/ PageHide

\* C5: a visibilitychange or pagehide delivered to a tryOpenApp session that is
\* not done resolves it to true in that step and clears timer t; once such a
\* signal has resolved the session the timeout callback has not run and timer t
\* is not pending, so it never runs.
C5_SignalWins ==
  /\ []((IsTry /\ resolvedBy \in {"visibilitychange", "pagehide"}) =>
          /\ verdict = "true"
          /\ ~timeoutRan
          /\ ~Pending("t")
          /\ promise = (IF TryCanReject THEN "rejected" ELSE "true"))
  /\ [][(IsTry /\ ~done /\ SignalStep) =>
          /\ done' /\ verdict' = "true" /\ resolvedAt' = now
          /\ resolvedBy' \in {"visibilitychange", "pagehide"}
          /\ ~Pending("t")']_vars

\* C5 witness: a signal resolved the session and the clock has passed the time
\* at which timer t was due, without the timeout callback running.
C5_Witness ==
  /\ IsTry /\ resolvedBy = "visibilitychange" /\ promise = "true"
  /\ now > startTime + opts.timeout /\ ~timeoutRan

\* C6: a tryOpenApp session has its three listeners registered exactly while
\* it is not done; after resolution none is registered.
C6_NoDanglingListeners ==
  IsTry => (listeners = (IF done THEN {} ELSE EventTypes))

\* C6 witness: a blur on a hidden page resolved the session; no listener is left.
C6_Witness ==
  IsTry /\ done /\ resolvedBy = "blur" /\ listeners = {}

C8_Original ==
  (IsTry /\ signalled) => (done /\ verdict = "true")

\* C8 (amended): delivered to a session that is not done, visibilitychange and
\* pagehide resolve it to true whatever the visibility state; blur resolves it
\* to true only when the document is hidden and otherwise leaves it armed.
C8_BlurNeedsHidden ==
  [][(IsTry /\ ~done) =>
       /\ SignalStep => (done' /\ verdict' = "true")
       /\ Blur => IF hidden
                    THEN done' /\ verdict' = "true" /\ resolvedBy' = "blur"
                    ELSE ~done' /\ verdict' = "none" /\ listeners' = EventTypes
                         /\ timers' = timers]_vars

\* C8 witness: a blur was delivered while the page was visible and the session
\* is still armed.
C8_Witness ==
  IsTry /\ signalled /\ ~done /\ ~hidden /\ listeners = EventTypes

\* C9 (as claimed): a tryOpenApp session resolves true only at an event at
\* which the page was hidden or being unloaded.
C9_TrueOnlyOnForegroundLoss ==
  (IsTry /\ verdict = "true") => (hiddenAtResolve \/ resolvedBy = "pagehide")

AndroidWithPackage ==
  fn = "detectApp" /\ path = "android" /\ config.androidPackage # ""

IosWithScheme ==
  fn = "detectApp" /\ path = "ios" /\ device.isIOS /\ config.iosScheme # ""

\* C11: detectApp of either detector class on an iOS device with a non-empty
\* iosScheme, whose iframe was injected and whose page was never hidden, returns
\* isInstalled = false with detectionMethod "iOS URL Scheme", and returns it from
\* the timeout callback: not before timeoutDuration has elapsed since the start,
\* and until then the result is outstanding and the timeout timer is pending.
C11_IosTimesOut ==
  (IosWithScheme /\ ~everHidden /\ ~domThrew) =>
    /\ detectionMethod = "iOS URL Scheme"
    /\ isInstalled \in {"none", "false"}
    /\ timeoutRan => /\ isInstalled = "false"
                     /\ resolvedBy = "timeout"
                     /\ resolvedAt >= startTime + timeoutDuration(version)
    /\ ~timeoutRan =>
         /\ isInstalled = "none"
         /\ \E x \in timers :
              x.id = "timeout" /\ x.due = startTime + timeoutDuration(version)

\* C11 witness: the logging detector returned false on a page that stayed visible.
C11_Witness ==
  /\ IosWithScheme /\ version = 2 /\ ~everHidden /\ ~domThrew
  /\ isInstalled = "false" /\ now >= startTime + TimeoutDuration2

\* detectApp was called on an iOS or Android device whose config holds no
\* scheme (and, on Android, no package) for the device's platform.
NoSchemeForPlatform ==
  /\ fn = "detectApp"
  /\ device.isIOS \/ device.isAndroid
  /\ device.isIOS => config.iosScheme = ""
  /\ device.isAndroid => (config.androidScheme = "" /\ config.androidPackage = "")

\* C12: when the config holds no scheme for the current platform, detectApp
\* returns isInstalled = false without any launch attempt, whatever the config
\* holds for other platforms.
C12_ShortCircuit ==
  NoSchemeForPlatform => (isInstalled = "false" /\ attempts = <<>>)

\* C13: tryOpenApp called with an empty scheme has resolved false when the call
\* returns, with no listener registered, no timer armed, no iframe injected and
\* no location assignment made.
C13_EmptyScheme ==
  (IsTry /\ opts.scheme = "") =>
    /\ promise = "false"
    /\ listeners = {} /\ timers = {} /\ body = {} /\ attempts = <<>>

\* C14: when the iframe injection of tryOpenApp throws, the promise has resolved
\* false (it is not rejected), and the listeners and timer t are released.
C14_InjectionFailure ==
  (IsTry /\ domThrew) =>
    /\ promise = "false"
    /\ listeners = {} /\ ~Pending("t")

\* C15: in either detector class, once a DOM operation of the launch attempt of
\* detectIOSApp, detectAndroidApp or detectGenericMobile has thrown, detectApp
\* has returned isInstalled = false: the failure delivers the result at once
\* instead of leaving it to the timeout.
C15_InjectionFailure ==
  (fn = "detectApp" /\ domThrew) => isInstalled = "false"

AndroidBoth == AndroidWithPackage /\ config.androidScheme # ""

C17_FallbackOrder ==
  AndroidBoth =>
    /\ attempts # <<>> => attempts[1].kind = "location"
    /\ (\E i \in 1..Len(attempts) : attempts[i].kind = "iframe") =>
         (~Pending("intentCheck") /\ resolvedBy # "intentCheck")

\* main() runs on a device its user-agent tests class as mobile.
MainOnMobile == fn = "main" /\ isMobile(device)

\* C18: in main() on a mobile device the launch attempt is made in the call,
\* before openApp resolves. If openApp resolves true no navigation follows; if
\* it resolves false every navigation that follows goes to the store URL of the
\* detected platform (CONFIG.iosStore on iOS, CONFIG.androidStore otherwise)
\* and is made by the store button's click handler or by the timer armed
\* 2000 ms after the resolution.
C18_RedirectPolicy ==
  /\ [](MainOnMobile =>
          /\ \A i \in 1..Len(attempts) :
               \/ i = 1 /\ attempts[i].kind = "fetch"
               \/ i = 2 /\ attempts[i].url = <<CONFIG.deepLink>>
               \/ /\ i > 2 /\ promise = "false"
                  /\ attempts[i].kind = "location"
                  /\ device.isIOS => attempts[i].url = <<CONFIG.iosStore>>
                  /\ ~device.isIOS => attempts[i].url = <<CONFIG.androidStore>>
          /\ promise \in {"pending", "true", "rejected"} =>
               (Len(attempts) <= 2 /\ ui = "loading" /\ ~Pending("redirect"))
          /\ promise = "false" =>
               /\ ui = "store" /\ resolvedBy = "timeout"
               /\ \A x \in timers :
                    x.id = "redirect" => x.due = resolvedAt + RedirectDelay)
  /\ [][(MainOnMobile /\ attempts' # attempts) =>
          (promise = "false" /\ (StoreBtnClick \/ TimerRedirect))]_vars

\* C18 witness: on an iOS device openApp resolved false, the visitor clicked the
\* store button once and the redirect timer has fired.
C18_Witness ==
  /\ MainOnMobile /\ device.isIOS /\ promise = "false"
  /\ clicks = 1 /\ ~Pending("redirect") /\ Len(attempts) = 4
  /\ attempts[4].url = <<CONFIG.iosStore>>

\* C19: in openOrStore, when tryOpenApp resolves true no navigation follows the
\* launch attempt; when it resolves false one navigation follows, to the Play
\* Store listing for an Android visitor and to the App Store listing for an iOS
\* visitor.
C19_StoreByPlatform ==
  (caller = "openOrStore" /\ promise \in {"true", "false"}) =>
    /\ promise = "true" => Len(attempts) = 1
    /\ promise = "false" =>
         /\ Len(attempts) = 2 /\ attempts[2].kind = "location"
         /\ (device.isAndroid /\ ~device.isIOS) => attempts[2].url = <<PlayStoreUrl>>
         /\ (device.isIOS /\ ~device.isAndroid) => attempts[2].url = <<AppStoreUrl>>

\* The visitor's device is neither iOS nor Android nor any other mobile class.
Unsupported == ~device.isIOS /\ ~device.isAndroid /\ ~device.isMobile

\* C20: on a device that is neither iOS nor Android nor any other mobile class,
\* main() shows the desktop message and never calls openApp: no promise, no
\* listener, no timer, no iframe and no navigation, only the API post; and
\* detectApp returns isInstalled = false with detectionMethod
\* "Desktop/Unsupported" without any timer, listener or launch attempt.
C20_Unsupported ==
  /\ (fn = "main" /\ Unsupported) =>
       /\ ui = "desktop" /\ promise = "none" /\ resolveCalls = 0
       /\ listeners = {} /\ timers = {} /\ body = {}
       /\ attempts = << [kind |-> "fetch", url |-> <<CONFIG.apiUrl>>] >>
  /\ (fn = "detectApp" /\ Unsupported) =>
       /\ isInstalled = "false" /\ detectionMethod = "Desktop/Unsupported"
       /\ promise = "none" /\ resolveCalls = 0
       /\ listeners = {} /\ timers = {} /\ body = {} /\ attempts = <<>>

\* C20 witness: main() ran on a desktop device, and the page has been hidden and
\* shown again since.
C20_Witness ==
  /\ fn = "main" /\ Unsupported /\ ui = "desktop"
  /\ everHidden /\ ~hidden

\* openAppOrStore ran on a device that is neither iOS nor Android.
OpenAppOrStoreOffMobile ==
  fn = "openAppOrStore" /\ ~device.isIOS /\ ~device.isAndroid

C22_SettleDelay ==
  IosWithScheme =>
    /\ (~domThrew /\ now < startTime + IosSettle(version)) =>
         (resolveCalls = 0 /\ Pending("settle"))
    /\ verdict = "true" =>
         /\ resolvedAt >= startTime + IosSettle(version)
         /\ hiddenAtResolve
    /\ ~hiddenPastSettle => (verdict # "true" /\ isInstalled # "true")

\* C22 witness: the page was hidden during the settle delay only, and the
\* logging detector returned false.
C22_Witness ==
  /\ IosWithScheme /\ version = 2 /\ everHidden /\ ~hiddenPastSettle
  /\ isInstalled = "false" /\ resolvedBy = "timeout"

\* Call i has returned its result.
Returned(i) == sessions[i].rec.isInstalled # "none"

\* The result object call i returned.
ResultOf(i) ==
  [ isInstalled |-> sessions[i].rec.isInstalled,
    detectionMethod |-> Method(sessions[i].path), call |-> i ]

\* The calls for appName that returned after the last clearResults().
ReturnedFor(appName) ==
  {i \in SessionIds : /\ sessions[i].appName = appName
                      /\ Returned(i)
                      /\ sessions[i].completedSeq > lastClear}

\* C23: after any interleaving of overlapping detectApp calls, detectionResults
\* maps each appName to the result of the call for that name that returned
\* last, and has no entry for a name without a returned call since the last
\* clearResults(); a step in which a call returns changes the entry of its own
\* appName only, and an entry disappears only in a clearResults() step.
C23_ResultsMap ==
  /\ [](\A a \in AppNames :
          IF ReturnedFor(a) = {}
            THEN detectionResults[a] = NoResult
            ELSE \E i \in ReturnedFor(a) :
                   /\ \A j \in ReturnedFor(a) :
                        sessions[j].completedSeq <= sessions[i].completedSeq
                   /\ detectionResults[a] = ResultOf(i))
  /\ [][\A a \in AppNames :
          detectionResults'[a] # detectionResults[a] =>
            \/ /\ detectionResults' = NoResults
               /\ sessions' = sessions /\ pageTimers' = pageTimers
            \/ \E i \in SessionIds :
                 /\ sessions[i].rec.isInstalled = "none"
                 /\ sessions'[i].rec.isInstalled # "none"
                 /\ sessions'[i].appName = a
                 /\ detectionResults'[a] # NoResult]_vars

\* C23 witness: two overlapping calls for WhatsApp; the second returned first
\* and the first returned last with another verdict, which is the one stored.
C23_Witness ==
  /\ sessions[1].appName = "WhatsApp" /\ sessions[2].appName = "WhatsApp"
  /\ sessions[2].completedSeq = 1 /\ sessions[1].completedSeq = 2
  /\ sessions[1].rec.isInstalled # sessions[2].rec.isInstalled
  /\ detectionResults["WhatsApp"].call = 1

\* The next step of the host runs a timer callback of call i.
NextTimerOf(i) ==
  \E x \in pageTimers :
    /\ x.sid = i /\ x.due <= now
    /\ \A y \in pageTimers : y.due > x.due \/ (y.due = x.due /\ y.seq >= x.seq)

\* Nothing that belongs to call j changes in the step.
Untouched(j) ==
  /\ sessions'[j] = sessions[j]
  /\ {x \in pageTimers' : x.sid = j} = {x \in pageTimers : x.sid = j}
  /\ (j \in pageBody') = (j \in pageBody)

\* C24: with two overlapping detectApp calls on the shared detector, a timer
\* callback of one call, and the start of one call, leave the resolved flag,
\* the verdict, the timers and the iframe of the other call as they were; a
\* call's result, once returned, never changes, and in the logging class
\* resolve is called at most once per call.
C24_SessionIsolation ==
  /\ [](\A i \in SessionIds :
          version = 2 => sessions[i].rec.resolveCalls <= 1)
  /\ [][\A i \in SessionIds :
          /\ (CallTimer /\ NextTimerOf(i)) =>
               \A j \in SessionIds \ {i} : Untouched(j)
          /\ (sessions[i].appName = "" /\ sessions'[i].appName # "") =>
               \A j \in SessionIds \ {i} : Untouched(j)
          /\ Returned(i) =>
               /\ sessions'[i].rec.isInstalled = sessions[i].rec.isInstalled
               /\ sessions'[i].rec.promise = sessions[i].rec.promise]_vars

\* C24 witness: in the logging class the first call has resolved true while
\* the second is still pending with its iframe attached and its timeout timer
\* armed.
C24_Witness ==
  /\ version = 2
  /\ sessions[1].rec.verdict = "true" /\ sessions[1].rec.resolved
  /\ sessions[2].rec.promise = "pending" /\ ~sessions[2].rec.resolved
  /\ 2 \in pageBody /\ 1 \notin pageBody
  /\ \E x \in pageTimers : x.sid = 2 /\ x.id = "timeout"

\* ---------------------------------------------------------------- openApp
\* A session of the landing page's main() whose visitor is on a mobile device.
IsOpenApp == fn = "main" /\ isMobile(device)

\* The two listeners openApp registers.
OpenAppListeners == {"visibilitychange", "pagehide"}

\* openApp's 2500 ms timer is pending.
OpenAppTimerPending == \E x \in timers : x.id = "openAppTimeout"

\* C26: once openApp has resolved true on a visibilitychange or pagehide that
\* found the page hidden, its two listeners are removed and its 2500 ms timer
\* is cancelled, so resolve has been called once and is not called again.
C26_OpenAppTeardown ==
  (IsOpenApp /\ promise = "true") =>
    /\ listeners \cap OpenAppListeners = {}
    /\ ~OpenAppTimerPending
    /\ resolveCalls = 1

\* The step delivers visibilitychange or pagehide while the document is hidden.
HiddenSignal == (VisibilityChange /\ hidden') \/ (PageHide /\ hidden)

\* C27: the promise of openApp settles exactly once (the launch not having
\* thrown). It settles true exactly in a step that delivers visibilitychange
\* or pagehide with the document hidden before the 2500 ms callback has run,
\* and false exactly in the step of that callback otherwise; the callback
\* passes the opened flag, which is set iff the promise settled true.
C27_OpenAppVerdict ==
  /\ []((IsOpenApp /\ ~domThrew) =>
          /\ opened <=> promise = "true"
          /\ timeoutRan => promise = B2S(opened))
  /\ [][(IsOpenApp /\ ~domThrew) =>
          /\ promise # "pending" => promise' = promise
          /\ (promise = "pending" /\ promise' = "true") => (HiddenSignal /\ ~timeoutRan)
          /\ (promise = "pending" /\ HiddenSignal) => promise' = "true"
          /\ (promise = "pending" /\ promise' = "false") => TimerOpenAppTimeout
          /\ (promise = "pending" /\ TimerOpenAppTimeout) => promise' = "false"]_vars
  /\ ((IsOpenApp /\ ~domThrew) ~> (promise \in {"true", "false"}))

\* C27 witness: openApp settled true on a signal, later signals and the
\* 2500 ms callback called resolve again, and the promise is still true.
C27_Witness ==
  /\ IsOpenApp /\ promise = "true" /\ opened
  /\ timeoutRan /\ resolveCalls >= 2
  /\ resolvedBy \in {"visibilitychange", "pagehide"}

\* C27 second case: nothing was signalled and the callback settled false.
C27_FalseCase ==
  IsOpenApp /\ promise = "false" /\ ~opened /\ timeoutRan /\ resolvedBy = "timeout"

\* ------------------------------------------------- flags of the detectors
\* A detectIOSApp or detectGenericMobile session of detector class v.
IsPolling(v) == IsDetect(v) /\ path \in {"ios", "generic"}

\* C28: in detectIOSApp and detectGenericMobile of the first MobileAppDetector
\* resolve is called at most once, and once the timeout callback has delivered
\* false no later poll calls resolve: the one call stays the timeout's.
C28_DoneGuard ==
  IsPolling(1) =>
    /\ resolveCalls <= 1
    /\ timeoutRan => (resolveCalls = 1 /\ resolvedBy = "timeout")

\* A session of the logging MobileAppDetector: detectIOSApp, detectAndroidApp
\* or detectGenericMobile has created its promise.
IsLoggingSession == IsDetect(2) /\ promise # "none"

\* C29: in the logging MobileAppDetector resolve is called exactly once per
\* session, whatever the order of the timeout, poll and check callbacks, and
\* every call is made in a step that found resolved false and set it.
C29_SingleResolution ==
  /\ [](IsLoggingSession => (resolveCalls <= 1 /\ (resolveCalls = 1 => resolved)))
  /\ [][(fn' = "detectApp" /\ version' = 2 /\ resolveCalls' # resolveCalls) =>
          /\ ~resolved /\ resolved'
          /\ resolveCalls' = resolveCalls + 1]_vars
  /\ (IsLoggingSession ~> (resolveCalls = 1))

\* C29 witness: on the Android path the intent check resolved the session,
\* and the scheme check ran afterwards without calling resolve again.
C29_Witness ==
  /\ IsLoggingSession /\ path = "android"
  /\ resolvedBy = "intentCheck" /\ resolveCalls = 1 /\ resolved
  /\ timers = {} /\ now >= startTime + SchemeDelay(2) + SchemeCheckDelay(2)

\* C30: in the logging MobileAppDetector, when a callback of detectIOSApp,
\* detectAndroidApp or detectGenericMobile resolves the promise (true or
\* false), no timer the session had created before is left pending and the
\* session's iframe is not attached to document.body when the callback ends.
C30_ReleasedAtResolution ==
  [][(fn' = "detectApp" /\ version' = 2
        /\ promise = "pending" /\ promise' \in {"true", "false"}) =>
       /\ timers \cap timers' = {}
       /\ "iframe" \notin body']_vars

\* ------------------------------------------------------ polling variants
\* The delay before the first poll of a polling session.
SettleDelay(v, p) == IF p = "ios" THEN IosSettle(v) ELSE GenericSettle(v)

\* The page is hidden at a moment past the settle delay and before
\* timeoutDuration has elapsed, in a polling session of either class.
HiddenInPollWindow ==
  /\ fn = "detectApp" /\ path \in {"ios", "generic"} /\ promise = "pending"
  /\ hidden
  /\ now >= startTime + SettleDelay(version, path)
  /\ now < startTime + timeoutDuration(version)

\* C31: in detectIOSApp and detectGenericMobile of both classes, whenever the
\* page is hidden at some moment after the settle delay and before
\* timeoutDuration elapses, the session resolves true, whenever the hidden
\* state starts and however long it lasts.
C31_PollingDetects == HiddenInPollWindow ~> (verdict = "true")

\* ------------------------------------------------------ iframe lifetimes
\* A tryOpenApp session with openMethod "iframe".
IsTryIframe == IsTry /\ opts.openMethod = "iframe"

\* C32: in a tryOpenApp session with openMethod "iframe" the injected iframe
\* is eventually removed, whichever verdict was reached: its removal timer
\* stays pending while it is attached, only that timer's callback detaches
\* it, not before timeout + 500 ms, and once detached it stays detached.
C32_IframeRemoved ==
  /\ [](IsTryIframe => ("iframe" \in body => Pending("iframeRemove")))
  /\ [][IsTryIframe =>
          /\ ("iframe" \in body /\ "iframe" \notin body') =>
               /\ TimerIframeRemove
               /\ now >= startTime + opts.timeout + IframeLinger
          /\ "iframe" \notin body => "iframe" \notin body']_vars
  /\ ((IsTryIframe /\ "iframe" \in body) ~> ("iframe" \notin body))

\* C32 witness: a signal resolved the session true before the timeout, and
\* the removal timer has since detached the iframe.
C32_Witness ==
  /\ IsTryIframe /\ verdict = "true" /\ ~timeoutRan
  /\ Len(attempts) = 1 /\ "iframe" \notin body
  /\ now >= startTime + opts.timeout + IframeLinger

\* C33: in detectIOSApp of the first MobileAppDetector removeChild is never
\* called on an iframe that is no longer a child of document.body, whatever
\* the order of the polls and the cleanup callback: no callback ends with the
\* exception removeChild throws for a node that is not a child.
C33_IosIframeOnce ==
  (IsDetect(1) /\ path = "ios" /\ ~domThrew) => ~uncaught

\* ------------------------------------------- claims on detectMultipleApps
\* The detectApp call for appConfigs[k] has been made.
Started(k) == sessions[k].appName # ""

\* The call for appConfigs[k] starts in this step.
Starts(k) == ~Started(k) /\ Started(k)'

\* C34: detectMultipleApps runs its detections one after another. The call
\* for config k + 1 starts only when the call for config k has returned and
\* its result is stored and pushed, and not before the delay (500 ms, in the
\* logging class 1000 ms) has elapsed since then; two calls of the batch are
\* never pending together; the array has one result per returned call, in
\* the order of appConfigs, and is complete when it is returned.
C34_OneAfterAnother ==
  /\ [](/\ \A k \in SessionIds : Started(k) => batch.pos >= k
        /\ ~(sessions[1].rec.promise = "pending" /\ sessions[2].rec.promise = "pending")
        /\ Len(batch.results) = Cardinality({k \in SessionIds : Returned(k)})
        /\ \A k \in 1..Len(batch.results) :
             /\ batch.results[k].appName = appConfigs[k]
             /\ batch.results[k].isInstalled = sessions[k].rec.isInstalled
             /\ batch.results[k].isInstalled \in {"true", "false"}
        /\ batch.returned => Len(batch.results) = Len(appConfigs))
  /\ [][\A k \in 1..(Len(appConfigs) - 1) :
          Starts(k + 1) =>
            /\ Returned(k)
            /\ detectionResults[appConfigs[k]] = ResultOf(k)
            /\ Len(batch.results) = k
            /\ now >= batch.lastPush + BatchDelay(version)]_vars

\* C34 witness: the logging class returned the array after both detections,
\* the first of which found the app and the second of which timed out.
C34_Witness ==
  /\ version = 2 /\ batch.returned
  /\ batch.results[1].isInstalled = "true"
  /\ batch.results[2].isInstalled = "false"
  /\ sessions[2].rec.startTime >= sessions[1].rec.startTime + BatchDelay2 + IosSettle2

\* C35: when the detectApp call for the next config of a batch starts, no
\* timer created by the preceding call is pending and its iframe is not
\* attached to document.body, on every path on which the preceding call's
\* promise resolved.
C35_DelayAvoidsConflicts ==
  [][\A k \in 1..(Len(appConfigs) - 1) :
       (Starts(k + 1) /\ sessions[k].rec.promise \in {"true", "false"}) =>
         (Handles(k) = {} /\ k \notin pageBody)]_vars

\* ------------------------------------------------ launches of the sessions
\* detectApp took the Android branch.
IsAndroidPath == fn = "detectApp" /\ path = "android"

\* C36: detectAndroidApp without a package name never assigns window.location:
\* its only launch attempt is the hidden iframe with the scheme, injected not
\* before the fallback delay. With a package name the first attempt is the
\* navigation to intent://launch#Intent;package=<packageName>;end, and it is
\* the only navigation.
C36_IntentOnlyWithPackage ==
  IsAndroidPath =>
    /\ \A k \in 1..Len(attempts) :
         attempts[k].kind = "location" =>
           /\ k = 1 /\ config.androidPackage # ""
           /\ attempts[k].url =
                <<"intent://launch#Intent;package=", config.androidPackage, ";end">>
    /\ config.androidPackage # "" =>
         (Len(attempts) >= 1 /\ attempts[1].kind = "location")
    /\ config.androidPackage = "" =>
         /\ Len(attempts) <= 1
         /\ \A k \in 1..Len(attempts) :
              /\ attempts[k] = [kind |-> "iframe", url |-> <<config.androidScheme>>]
              /\ now >= startTime + SchemeDelay(version)
         /\ now < startTime + SchemeDelay(version) => attempts = <<>>

\* C36 witness: without a package name the scheme iframe was the only attempt
\* and its check found the page hidden.
C36_Witness ==
  /\ IsAndroidPath /\ config.androidPackage = ""
  /\ Len(attempts) = 1 /\ attempts[1].kind = "iframe"
  /\ verdict = "true" /\ resolvedBy = "schemeCheck"

\* C36 second case: with a package name the intent URL was navigated to.
C36_WithPackage ==
  /\ IsAndroidPath /\ config.androidPackage = "com.whatsapp" /\ version = 2
  /\ Len(attempts) = 2 /\ attempts[1].kind = "location"

\* A launch attempt (location assignment or iframe injection) was issued.
Launched == \E k \in 1..Len(attempts) : attempts[k].kind \in {"location", "iframe"}

\* C37: in tryOpenApp and openApp the listeners are registered and the timeout
\* timer is started before the launch attempt: whenever the launch was issued,
\* or threw, and the timeout has not ended the wait, the session is armed, and
\* a visibilitychange or pagehide delivered then is observed by it.
C37_ArmedBeforeLaunch ==
  /\ []((IsTry /\ (Launched \/ domThrew) /\ ~done) =>
          (listeners = EventTypes /\ Pending("t")))
  /\ []((IsOpenApp /\ (Launched \/ domThrew) /\ ~timeoutRan) =>
          (OpenAppListeners \subseteq listeners /\ OpenAppTimerPending))
  /\ [][/\ (IsTry /\ Launched /\ ~done /\ (VisibilityChange \/ PageHide)) =>
             (done' /\ verdict' = "true")
        /\ (IsOpenApp /\ Launched /\ ~timeoutRan /\ HiddenSignal) => opened']_vars

\* C37 witness: the page was hidden at the very clock value of the launch and
\* the session, already armed, resolved true on that visibilitychange.
C37_Witness ==
  /\ IsTry /\ Launched /\ verdict = "true"
  /\ resolvedBy = "visibilitychange" /\ resolvedAt = startTime

\* C37 for openApp: a signal right after the launch set opened.
C37_OpenAppCase ==
  /\ IsOpenApp /\ Launched /\ opened /\ resolvedAt = startTime

\* The pending poll timers of the session.
Polls == {x \in timers : x.id \in PollIds}

\* The interval at which a poll re-arms itself.
PollInterval(v, p) == IF p = "ios" THEN IosPoll(v) ELSE GenericPoll(v)

\* C38: in detectIOSApp and detectGenericMobile of both classes the chain of
\* polls is finite: at most one poll is pending, each is due less than one
\* interval after timeoutDuration, a poll that runs after the promise has
\* settled arms no timer, and in the end the session has no pending timer.
C38_PollingTerminates ==
  /\ [](\A v \in {1, 2} : IsPolling(v) =>
          /\ Cardinality(Polls) <= 1
          /\ \A x \in Polls :
               x.due < startTime + timeoutDuration(v) + PollInterval(v, path))
  /\ [][((IsPolling(1) \/ IsPolling(2)) /\ promise # "pending"
           /\ (TimerCheckInstallation \/ TimerCheckVisibility)) =>
          (timers' \subseteq timers /\ Polls' = {})]_vars
  /\ ((IsPolling(1) \/ IsPolling(2)) ~> (timers = {}))

\* C38 witness: the timeout callback has resolved a generic session of the
\* logging class false while one poll, armed before, is still scheduled.
C38_Witness ==
  /\ IsPolling(2) /\ path = "generic" /\ verdict = "false" /\ timeoutRan
  /\ Cardinality(Polls) = 1 /\ timers = Polls

\* ------------------------------------------------------------------- C39
IsRedirectPage == fn = "redirect"

\* The runs of redirectBasedOnDevice so far: each run issues one navigation
\* or writes the handler page once.
RedirectRuns == Len(attempts)

\* C39: on the redirect page redirectBasedOnDevice runs at most once per page
\* load, whatever document.readyState was when the script ran and wherever
\* DOMContentLoaded falls relative to it, so at most one redirect navigation
\* is issued.
C39_RedirectOnce ==
  IsRedirectPage => RedirectRuns <= 1

====
